---- MODULE Spec2Model ----
(***************************************************************************)
(* A model of pk500.py: the retrying fetch, the set/card enumeration, the  *)
(* price-table extraction and the basket/index computation of main.        *)
(*                                                                         *)
(* Money amounts are integers in cents.  The price texts drawn as inputs   *)
(* are multiples of 25 cents, for which Python's binary64 sums and         *)
(* products are exact, so integer arithmetic is what the code computes.    *)
(* The two divisions of the index computation are modelled as binary64     *)
(* divisions (F64Div), correctly rounded.                                  *)
(***************************************************************************)
EXTENDS Integers, Sequences, FiniteSets, TLC

VARIABLES
    \* ---- fetch (one call) ----
    f_pc,          \* "idle" | "loop" | "returned" | "raised"
    retries,       \* parameter retries of the call
    has_scraper,   \* whether the module-level scraper is not None
    attempt,       \* loop variable of `for attempt in range(1, retries + 1)`
    last_exc,      \* local last_exc (NoExc = None)
    f_raised,      \* the exception the call ended with (NoExc while none)
    last_status,   \* resp.status_code classified in the latest attempt (0: no response)
    last_primary,  \* status of the session.get response of the latest attempt (0: it raised)
    last_secondary, \* status of the scraper.get response of the latest attempt
                   \* (0: not called, or it raised)
    last_retry_after, \* the Retry-After header of the response classified in the
                   \* latest attempt (absent: no response)
    n_requests,    \* session.get / scraper.get calls issued by this call
    n_backoff,     \* _sleep_with_backoff calls made by this call
    n_pace,        \* time.sleep(SLEEP_SEC) calls made by this call
    last_sleep,    \* the latest sleep: [kind, dur, after]
    all_retryable, \* history: every attempt so far ended in a retryable outcome
    calls,         \* calls of fetch that returned earlier in this run
    since_ok,      \* seconds slept since the latest successful response of the run,
                   \* counted up to SLEEP_SEC (NoGap: no successful response yet)
    \* ---- main (one run) ----
    pc,            \* "idle" | "root" | "years" | "sets" | "pages" | "scan" | "extract" |
                   \* "sorted" | "computed" | "aborted"
    raised,        \* the page kind whose fetch raised out of main ("None" while none)
    root_links,    \* the year links of the root page, in document order
    year_pages,    \* year -> the set links its page lists, in document order
    MAX_SETS,      \* the module constant MAX_SETS (NoCap = None)
    year_urls,     \* iter_set_urls: year_urls
    year_i,        \* year pages already fetched by the loop of line 202
    count_sets,    \* iter_set_urls: count_sets
    site,          \* the set listing pages: page url -> [cards, next]
    pool,          \* names the card pages a card url can resolve to
    set_urls,      \* main: set_urls
    set_i,         \* sets already traversed by the loop of line 378
    next_url,      \* iter_card_urls_in_set: next_url ("None" = None)
    seen,          \* iter_card_urls_in_set: seen
    card_urls,     \* main: card_urls
    raw_urls,      \* history: every url yielded by the traversals, in order
    ext_fetched,   \* history: the urls passed to parse_card_value, in order
    found_order,   \* history: the records parse_card_value returned, in order
    all_values,    \* main: all_values
    top10,         \* main: top10
    summary,       \* main: n, basket_size, sum_value, divisor_10000, index_level
    \* ---- the saving steps of the running instances (452-516) ----
    log,           \* the rows of data/index_history.csv
    log_exists,    \* whether data/index_history.csv exists
    o_pc,          \* instance -> "crawl" | "save" | "checked" | "opened" | "logged" |
                   \*             "top10" | "basket" | "done"
    history_exists,\* instance -> main: history_exists
    o_row,         \* instance -> the values of its data row
    written,       \* instance -> the report files it has written
    \* ---- parse_card_value (one call) ----
    x_pc,          \* "idle" | "fetched" | "parsed"
    x_tables,      \* soup.find_all("table") of the fetched document
    x_result,      \* the value returned (NotFound = None)
    \* ---- compute_index (one call) ----
    ci_pc,         \* "idle" | "called" | "returned"
    values_desc,   \* the argument
    ci_result      \* the dict returned

fetchVars == <<f_pc, retries, has_scraper, attempt, last_exc, f_raised,
               last_status, last_primary, last_secondary, last_retry_after,
               n_requests, n_backoff,
               n_pace, last_sleep, all_retryable, calls, since_ok>>

crawlVars == <<site, set_urls, set_i, next_url, seen, raw_urls>>
aggVars == <<pool, ext_fetched, found_order, all_values, top10, summary>>
enumVars == <<root_links, year_pages, MAX_SETS, year_urls, year_i, count_sets>>
saveVars == <<log, log_exists, o_pc, history_exists, o_row, written>>
runVars == <<raised, enumVars, saveVars>>
mainVars == <<pc, card_urls, crawlVars, aggVars, runVars>>

extractVars == <<x_pc, x_tables, x_result>>

helperVars == <<ci_pc, values_desc, ci_result>>

vars == <<fetchVars, mainVars, extractVars, helperVars>>

-----------------------------------------------------------------------------
(* Bounds of the model *)

MaxRetries == 3     \* retries of a call followed from its first attempt
DeepRetries == 8    \* retries of a call followed from its last two attempts
MaxCalls == 2       \* calls of fetch followed in one run
MaxMixed == 4       \* records of a list of several values
MaxSets == 2       \* set urls of a run
MaxLinks == 2      \* card links on one set listing page
MaxRows == 2       \* body rows of a price table
MaxCards == 5      \* card urls of a run with many different values
MaxTopCards == 11  \* card urls of a run with two different values
MaxRecords == 501  \* valid records of a run whose records all have one value
MaxYearLinks == 2  \* year links on the root page
MaxYearSets == 2   \* set links on one year page
MaxCap == 3        \* the largest value of MAX_SETS
MaxPriorRuns == 2  \* runs that ended before the modelled ones
MaxOtherCards == 2 \* valid records of an instance whose crawl is not followed

\* An optional binary64 value: None, or mantissa (hi * 2^27 + lo) * 2^e.
NoneF == [none |-> TRUE, hi |-> 0, lo |-> 0, e |-> 0]
NoSummary == [n |-> 0, basket_size |-> 0, basket |-> <<>>, sum_value |-> 0,
              divisor_10000 |-> NoneF, index_level |-> NoneF]
NoDict == [n_total |-> 0, k_used |-> 0, sum_value |-> 0,
           divisor_10000 |-> NoneF, index_level |-> NoneF]

\* No call of compute_index is modelled.
HelperIdle == ci_pc = "idle" /\ values_desc = <<>> /\ ci_result = NoDict

\* The running instances: 1 is the run of main the model follows from its start,
\* 2 another instance of the program running at the same time.
Instances == {1, 2}
\* MAX_SETS = None.
NoCap == -1
NoRow == [total_cards |-> 0, basket_size |-> 0]

\* No set enumeration is modelled.
EnumIdle ==
    /\ root_links = <<>> /\ year_pages = <<>> /\ MAX_SETS = NoCap
    /\ year_urls = <<>> /\ year_i = 0 /\ count_sets = 0
\* No saving is modelled: no instance reaches line 452.
SaveIdle ==
    /\ log = <<>> /\ log_exists = FALSE
    /\ o_pc = [r \in Instances |-> "crawl"]
    /\ history_exists = [r \in Instances |-> FALSE]
    /\ o_row = [r \in Instances |-> NoRow]
    /\ written = [r \in Instances |-> {}]
RunIdle == raised = "None" /\ EnumIdle /\ SaveIdle

\* No run of main is in progress.
MainIdle ==
    /\ RunIdle
    /\ pc = "idle"
    /\ site = <<>> /\ pool = "none" /\ set_urls = <<>> /\ set_i = 0
    /\ next_url = "None" /\ seen = {} /\ card_urls = <<>> /\ raw_urls = <<>>
    /\ ext_fetched = <<>> /\ found_order = <<>> /\ all_values = <<>> /\ top10 = <<>>
    /\ summary = NoSummary

NotFound == [found |-> FALSE, url |-> 0, value_usd |-> 0]

\* No call of parse_card_value is modelled on its own.
ExtractIdle == x_pc = "idle" /\ x_tables = <<>> /\ x_result = NotFound

-----------------------------------------------------------------------------
(* fetch: src/pk500.py 89-162 *)

SLEEP_SEC == 2
base_delay == 1
max_delay == 60

\* The sequences over S of length at most n.
SeqsUpTo(S, n) == UNION {[1 .. k -> S] : k \in 0 .. n}
Range(q) == {q[i] : i \in 1 .. Len(q)}

Min(a, b) == IF a <= b THEN a ELSE b
Max(a, b) == IF a >= b THEN a ELSE b

NoExc == [kind |-> "None", status |-> 0, at |-> 0]
NoSleep == [kind |-> "none", dur |-> 0, after |-> 0]
NoGap == -1

\* Status codes a response can carry (a sample of every class).
StatusCodes == {100, 200, 204, 304, 400, 403, 404, 429, 500, 501, 502, 503, 504}

\* Retry-After header values: absent, empty, not a number, numbers.
RetryAfterValues ==
    {[kind |-> "absent", v |-> 0], [kind |-> "empty", v |-> 0],
     [kind |-> "text", v |-> 0],
     [kind |-> "num", v |-> -5], [kind |-> "num", v |-> 0],
     [kind |-> "num", v |-> 5], [kind |-> "num", v |-> 120]}

\* What one session.get / scraper.get call can do: return a response or raise.
ExcKinds == {"ReadTimeout", "ConnectTimeout", "ConnectionError", "Other"}
NoHeader == [kind |-> "absent", v |-> 0]
Outcomes ==
    [kind : {"resp"}, status : StatusCodes, retry_after : RetryAfterValues]
    \cup [kind : ExcKinds, status : {0}, retry_after : {NoHeader}]

\* The tuple tested at lines 128 and 150.
RetryableStatuses == {403, 429, 500, 502, 503, 504}

IsRetryableStatusMutAll(s) == s >= 400
IsRetryableStatus(s) == s \in RetryableStatuses

\* requests.Response.raise_for_status: raises HTTPError for 4xx and 5xx only.
RaisesForStatus(s) == 400 <= s /\ s < 600

\* `if attempt == retries` at lines 129 and 156.
IsFinalAttemptMutNever(a, r) == FALSE
IsFinalAttempt(a, r) == a = r

\* Lines 121-125: the primary client first, the scraper on a 403 when configured.
UsesScraperMutUnconfigured(p) == p.kind = "resp" /\ p.status = 403
UsesScraper(p) == p.kind = "resp" /\ p.status = 403 /\ has_scraper
\* The response (or exception) an attempt goes on with, the requests it took and
\* the statuses of the two clients' responses (0 when the get raised or was not
\* made).
AttemptOutcomes ==
    {[eff |-> p, nreq |-> 1, prim |-> p.status, sec |-> 0] :
        p \in {x \in Outcomes : ~UsesScraper(x)}}
    \cup {[eff |-> q, nreq |-> 2, prim |-> s, sec |-> q.status] :
             q \in Outcomes, s \in {x.status : x \in {y \in Outcomes : UsesScraper(y)}}}

\* _sleep_with_backoff (lines 104-116): the sleeps it can perform.  A numeric
\* header gives min(ra, max_delay); time.sleep raises ValueError on a negative
\* length, which the same `except ValueError` absorbs, so the jitter follows.
JitterCapMutNextPower(a) == Min(max_delay, base_delay * (2 ^ a))
JitterCap(a) == Min(max_delay, base_delay * (2 ^ (a - 1)))
JitterSleeps(a) ==
    {[kind |-> "jitter", dur |-> d, after |-> a] : d \in 0 .. JitterCap(a)}
SleepWithBackoffMutNoCap(a, ra) ==
    IF ra.kind = "num" /\ ra.v >= 0
    THEN {[kind |-> "retry_after", dur |-> ra.v, after |-> a]}
    ELSE JitterSleeps(a)
SleepWithBackoff(a, ra) ==
    IF ra.kind = "num" /\ Min(ra.v, max_delay) >= 0
    THEN {[kind |-> "retry_after", dur |-> Min(ra.v, max_delay), after |-> a]}
    ELSE JitterSleeps(a)

\* Line 140: the pacing sleep after the attempt a that got the document.
PacingSleepMutZero(a) == [kind |-> "pace", dur |-> 0, after |-> a]
PacingSleep(a) == [kind |-> "pace", dur |-> SLEEP_SEC, after |-> a]

\* The seconds since the latest successful response after sleeping d more.
Elapsed(g, d) == IF g = NoGap THEN NoGap ELSE Min(g + d, SLEEP_SEC)

\* The exception handlers of lines 143-153: TRUE when the exception is kept in
\* last_exc (retry), FALSE when it propagates out of fetch.
HandlerRetries(e) ==
    \/ e.kind \in {"ReadTimeout", "ConnectTimeout", "ConnectionError"}
    \/ e.kind = "HTTPError" /\ IsRetryableStatus(e.status)

\* An attempt whose outcome is exception e (raised by a get or by raise_for_status):
\* lines 143-159.
AfterException(e, nreq, st) ==
    /\ n_requests' = n_requests + nreq
    /\ last_status' = st
    /\ UNCHANGED <<retries, has_scraper, n_pace, calls>>
    /\ IF HandlerRetries(e)
       THEN /\ last_exc' = e
            /\ all_retryable' = all_retryable
            /\ IF IsFinalAttempt(attempt', retries)
               THEN /\ f_pc' = "raised"
                    /\ f_raised' = e
                    /\ UNCHANGED <<n_backoff, last_sleep, since_ok>>
               ELSE /\ f_pc' = "loop"
                    /\ f_raised' = NoExc
                    /\ n_backoff' = n_backoff + 1
                    /\ last_sleep' \in JitterSleeps(attempt')
                    /\ since_ok' = Elapsed(since_ok, last_sleep'.dur)
       ELSE /\ f_pc' = "raised"
            /\ f_raised' = e
            /\ all_retryable' = FALSE
            /\ UNCHANGED <<last_exc, n_backoff, last_sleep, since_ok>>

InLoop == f_pc = "loop" /\ attempt < retries

\* One loop iteration in which a get raises (lines 121/125, 143-159).
AttemptException ==
    /\ InLoop
    /\ UNCHANGED <<mainVars, extractVars, helperVars>>
    /\ attempt' = attempt + 1
    /\ \E o \in AttemptOutcomes :
          LET eff == o.eff IN
          /\ eff.kind # "resp"
          /\ last_primary' = o.prim
          /\ last_secondary' = o.sec
          /\ last_retry_after' = NoHeader
          /\ AfterException([kind |-> eff.kind, status |-> 0, at |-> attempt'],
                            o.nreq, 0)

\* One loop iteration whose response has a retryable status (lines 128-134).
AttemptRetryableStatus ==
    /\ InLoop
    /\ UNCHANGED <<mainVars, extractVars, helperVars>>
    /\ attempt' = attempt + 1
    /\ \E o \in AttemptOutcomes :
          LET eff == o.eff IN
          /\ eff.kind = "resp"
          /\ IsRetryableStatus(eff.status)
          /\ last_primary' = o.prim
          /\ last_secondary' = o.sec
          /\ last_retry_after' = eff.retry_after
          /\ IF IsFinalAttempt(attempt', retries) /\ RaisesForStatus(eff.status)
             THEN AfterException([kind |-> "HTTPError", status |-> eff.status,
                                  at |-> attempt'], o.nreq, eff.status)
             ELSE /\ f_pc' = "loop"
                  /\ n_requests' = n_requests + o.nreq
                  /\ last_status' = eff.status
                  /\ n_backoff' = n_backoff + 1
                  /\ last_sleep' \in SleepWithBackoff(attempt', eff.retry_after)
                  /\ since_ok' = Elapsed(since_ok, last_sleep'.dur)
                  /\ UNCHANGED <<retries, has_scraper, last_exc, f_raised,
                                 n_pace, all_retryable, calls>>

\* One loop iteration whose response has any other status (lines 137-141).
AttemptOtherStatus ==
    /\ InLoop
    /\ UNCHANGED <<mainVars, extractVars, helperVars>>
    /\ attempt' = attempt + 1
    /\ \E o \in AttemptOutcomes :
          LET eff == o.eff IN
          /\ eff.kind = "resp"
          /\ ~IsRetryableStatus(eff.status)
          /\ last_primary' = o.prim
          /\ last_secondary' = o.sec
          /\ last_retry_after' = eff.retry_after
          /\ IF RaisesForStatus(eff.status)
             THEN AfterException([kind |-> "HTTPError", status |-> eff.status,
                                  at |-> attempt'], o.nreq, eff.status)
             ELSE /\ f_pc' = "returned"
                  /\ n_requests' = n_requests + o.nreq
                  /\ last_status' = eff.status
                  /\ n_pace' = n_pace + 1
                  /\ last_sleep' = PacingSleep(attempt')
                  /\ since_ok' = Min(last_sleep'.dur, SLEEP_SEC)
                  /\ all_retryable' = FALSE
                  /\ UNCHANGED <<retries, has_scraper, last_exc, f_raised,
                                 n_backoff, calls>>

\* Line 162, reached when the loop ends without a return or a raise; `raise None`
\* is a TypeError.
LoopExhausted ==
    /\ f_pc = "loop" /\ attempt >= retries
    /\ UNCHANGED <<mainVars, extractVars, helperVars>>
    /\ f_pc' = "raised"
    /\ f_raised' = IF last_exc = NoExc
                   THEN [kind |-> "TypeError", status |-> 0, at |-> 0]
                   ELSE last_exc
    /\ UNCHANGED <<retries, has_scraper, attempt, last_exc, last_status, last_primary,
                   last_secondary, last_retry_after, n_requests, n_backoff, n_pace, last_sleep,
                   all_retryable, calls, since_ok>>

\* The run goes on after a document was returned and calls fetch for the next
\* page (lines 189, 203, 238, 261), with the same defaults.  Only calls that are
\* followed from their first attempt are followed by another.
NextCall ==
    /\ f_pc = "returned" /\ calls + 1 < MaxCalls /\ retries <= MaxRetries
    /\ UNCHANGED <<mainVars, extractVars, helperVars>>
    /\ calls' = calls + 1
    /\ f_pc' = "loop"
    /\ attempt' = 0
    /\ last_exc' = NoExc
    /\ f_raised' = NoExc
    /\ last_status' = 0
    /\ last_primary' = 0
    /\ last_secondary' = 0
    /\ last_retry_after' = NoHeader
    /\ n_requests' = 0
    /\ n_backoff' = 0
    /\ n_pace' = 0
    /\ last_sleep' = NoSleep
    /\ all_retryable' = TRUE
    /\ UNCHANGED <<retries, has_scraper, since_ok>>

\* No call of fetch is modelled step by step.
FetchIdle ==
    /\ f_pc = "idle" /\ retries = 0 /\ has_scraper = FALSE /\ attempt = 0
    /\ last_exc = NoExc /\ f_raised = NoExc /\ last_status = 0
    /\ last_primary = 0 /\ last_secondary = 0 /\ last_retry_after = NoHeader
    /\ n_requests = 0 /\ n_backoff = 0 /\ n_pace = 0
    /\ last_sleep = NoSleep /\ all_retryable = TRUE
    /\ calls = 0 /\ since_ok = NoGap

\* A call of fetch at its start.
FetchCalled ==
    /\ retries \in 0 .. MaxRetries
    /\ has_scraper \in BOOLEAN
    /\ attempt = 0
    /\ last_exc = NoExc
    /\ last_primary = 0
    /\ last_secondary = 0
    /\ n_requests = 0
    /\ n_backoff = 0
    /\ last_sleep = NoSleep

\* A call of fetch with retries = DeepRetries whose attempts have all ended in a
\* ConnectionError so far, with two attempts left.
FetchDeep ==
    /\ retries = DeepRetries
    /\ has_scraper = FALSE
    /\ attempt = DeepRetries - 2
    /\ last_exc = [kind |-> "ConnectionError", status |-> 0, at |-> attempt]
    /\ last_primary = 0
    /\ last_secondary = 0
    /\ n_requests = attempt
    /\ n_backoff = attempt
    /\ last_sleep = [kind |-> "jitter", dur |-> 0, after |-> attempt]

InitFetch ==
    /\ MainIdle
    /\ ExtractIdle
    /\ HelperIdle
    /\ f_pc = "loop"
    /\ FetchCalled \/ FetchDeep
    /\ f_raised = NoExc
    /\ last_status = 0
    /\ last_retry_after = NoHeader
    /\ n_pace = 0
    /\ all_retryable = TRUE
    /\ calls = 0
    /\ since_ok = NoGap

NextFetch ==
    \/ AttemptException
    \/ AttemptRetryableStatus
    \/ AttemptOtherStatus
    \/ LoopExhausted
    \/ NextCall

SpecFetch == InitFetch /\ [][NextFetch]_vars

-----------------------------------------------------------------------------
(* Claims about fetch *)

\* The statuses the specification lists as retryable.
ListedRetryable == {403, 429, 500, 502, 503, 504}
TransientKinds == {"ReadTimeout", "ConnectTimeout", "ConnectionError", "HTTPError"}

\* C1: with retries >= 1, fetch makes at most `retries` attempts; when every
\* attempt ended in a retryable outcome and the attempts are used up, fetch has
\* raised the exception of the final attempt, and it has returned no document.
C1_RetriesExhausted ==
    (f_pc # "idle" /\ retries >= 1) =>
        /\ attempt <= retries
        /\ (all_retryable /\ attempt = retries) =>
              /\ f_pc = "raised"
              /\ n_pace = 0
              /\ f_raised.kind \in TransientKinds
              /\ f_raised.at = retries
              /\ f_raised.kind = "HTTPError" =>
                    (f_raised.status = last_status /\ last_status \in ListedRetryable)
              /\ f_raised.kind # "HTTPError" => last_status = 0
        /\ (all_retryable /\ attempt < retries) => f_pc = "loop"

C1_Witness ==
    /\ retries = MaxRetries /\ attempt = retries /\ all_retryable
    /\ f_pc = "raised" /\ f_raised.kind = "HTTPError" /\ f_raised.status = 503
    /\ n_backoff = retries - 1

\* The latest attempt got a response whose status the code does not retry.
TerminalStatusSeen(S) ==
    f_pc # "idle" /\ last_status \in S \ ListedRetryable

RaisedInSameAttempt ==
    /\ f_pc = "raised"
    /\ f_raised = [kind |-> "HTTPError", status |-> last_status, at |-> attempt]
    /\ last_sleep.after # attempt
    /\ n_pace = 0

SleptAfterRetryableStatus ==
    /\ f_pc = "loop" /\ attempt >= 1
    /\ last_status \in ListedRetryable
    /\ last_sleep.after = attempt

\* C15 as stated: after a retryable response that is not the final attempt's and
\* whose Retry-After header is a number v, the sleep is exactly min(v, max_delay),
\* for every v, so never above max_delay; the jitter is used only when the header
\* is absent or not numeric.
C15_Original ==
    SleptAfterRetryableStatus =>
        /\ last_retry_after.kind = "num" =>
              /\ last_sleep.kind = "retry_after"
              /\ last_sleep.dur = (IF last_retry_after.v <= 60 THEN last_retry_after.v ELSE 60)
        /\ last_sleep.kind = "jitter" => last_retry_after.kind \in {"absent", "empty", "text"}

\* C15 amended: the same for every number v >= 0; the jitter is used when the
\* header is absent, empty, not numeric or a negative number.
C15_RetryAfter ==
    SleptAfterRetryableStatus =>
        /\ (last_retry_after.kind = "num" /\ last_retry_after.v >= 0) =>
              /\ last_sleep.kind = "retry_after"
              /\ last_sleep.dur = (IF last_retry_after.v <= 60 THEN last_retry_after.v ELSE 60)
              /\ last_sleep.dur <= 60
        /\ last_sleep.kind \in {"retry_after", "jitter"}
        /\ last_sleep.kind = "jitter" <=>
              \/ last_retry_after.kind \in {"absent", "empty", "text"}
              \/ (last_retry_after.kind = "num" /\ last_retry_after.v < 0)

\* A 429 with Retry-After 120: the sleep is 60.
C15_Witness ==
    /\ SleptAfterRetryableStatus
    /\ last_status = 429 /\ last_retry_after = [kind |-> "num", v |-> 120]
    /\ last_sleep = [kind |-> "retry_after", dur |-> 60, after |-> attempt]

\* C16: a jittered backoff sleep happens only after an attempt a in
\* 1 .. retries - 1 and lasts between 0 and min(max_delay, base_delay * 2^(a-1));
\* there is one backoff sleep after each attempt but the final one, none after it.
C16_JitterRange ==
    /\ last_sleep.kind = "jitter" =>
          /\ last_sleep.after \in 1 .. retries - 1
          /\ last_sleep.dur >= 0
          /\ last_sleep.dur <= 60
          /\ last_sleep.dur <= 2 ^ (last_sleep.after - 1)
    /\ last_sleep.kind \in {"jitter", "retry_after"} => last_sleep.after <= retries - 1
    /\ f_pc = "loop" => n_backoff = attempt
    /\ (f_pc \in {"raised", "returned"} /\ attempt >= 1) => n_backoff = attempt - 1
    /\ (f_pc = "raised" /\ attempt = retries /\ last_sleep.kind # "none") =>
          last_sleep.after < attempt

\* The final attempt of a long call failed after a jittered sleep of 60, the cap,
\* that followed the attempt before it (2^6 = 64 > 60); no sleep followed the
\* final attempt.
C16_Witness ==
    /\ f_pc = "raised" /\ retries = DeepRetries /\ attempt = retries
    /\ last_sleep = [kind |-> "jitter", dur |-> 60, after |-> attempt - 1]
    /\ n_backoff = attempt - 1

\* The requests issued by the attempt a step makes.
AttemptRequests == n_requests' - n_requests

\* C17: every attempt calls the primary client first and the scraper at most once,
\* exactly when the primary response is a 403 and a scraper is configured; the
\* attempt then goes by the scraper's response status.  A call issues at most
\* 2 * retries requests.
C17_ScraperUse ==
    /\ [][attempt' = attempt + 1 =>
            /\ AttemptRequests \in {1, 2}
            /\ AttemptRequests = 2 <=> (last_primary' = 403 /\ has_scraper)
            /\ AttemptRequests = 1 => (last_secondary' = 0 /\ last_status' = last_primary')
            /\ (AttemptRequests = 2 /\ last_secondary' # 0) =>
                  /\ last_status' = last_secondary'
                  /\ f_pc' = "returned" <=> last_secondary' \in 100 .. 399
                  /\ f_pc' = "loop" =>
                        (last_secondary' \in ListedRetryable /\ attempt' < retries)
                  /\ f_pc' = "raised" =>
                        f_raised' = [kind |-> "HTTPError", status |-> last_secondary',
                                     at |-> attempt']]_vars
    /\ [](n_requests <= 2 * attempt /\ attempt <= retries)

\* The primary client got a 403, the configured scraper a 200: two requests in
\* the attempt, and the call returns.
C17_Witness ==
    /\ has_scraper /\ attempt = 1 /\ n_requests = 2
    /\ last_primary = 403 /\ last_secondary = 200
    /\ f_pc = "returned"

\* C18: a call of fetch that returns a document has made exactly one pacing sleep
\* of SLEEP_SEC, after the attempt whose response was the document and as its
\* latest sleep; a call that is running or has raised has made none.  A later
\* call of the run issues its requests at least SLEEP_SEC after the latest
\* successful response.
C18_PacingSleep ==
    /\ f_pc = "returned" =>
          /\ n_pace = 1
          /\ last_sleep = [kind |-> "pace", dur |-> 2, after |-> attempt]
          /\ last_status \in 100 .. 399
          /\ since_ok >= 2
    /\ f_pc \in {"loop", "raised"} => (n_pace = 0 /\ last_sleep.kind # "pace")
    /\ calls = 0 => (f_pc \in {"loop", "raised"} => since_ok = NoGap)
    /\ calls >= 1 => since_ok >= 2

\* The second call of a run returns a document on its second attempt, after a
\* backoff sleep and its own pacing sleep.
C18_Witness ==
    /\ calls = 1 /\ f_pc = "returned" /\ attempt = 2
    /\ n_backoff = 1 /\ n_pace = 1
    /\ last_sleep = [kind |-> "pace", dur |-> SLEEP_SEC, after |-> 2]

-----------------------------------------------------------------------------
(* binary64 arithmetic.  A positive double is m * 2^e with 2^52 <= m < 2^53; *)
(* m is kept as two limbs [hi, lo], m = hi * 2^27 + lo.                      *)

Limb == 134217728          \* 2^27
HiOne == 33554432          \* 2^25: hi of the mantissa 2^52

NatLt(a, b) == a.hi < b.hi \/ (a.hi = b.hi /\ a.lo < b.lo)
NatSub(a, b) ==
    IF a.lo >= b.lo THEN [hi |-> a.hi - b.hi, lo |-> a.lo - b.lo]
    ELSE [hi |-> a.hi - b.hi - 1, lo |-> a.lo + Limb - b.lo]
\* 2 * a + bit.
NatDbl(a, bit) ==
    LET l == 2 * a.lo + bit IN [hi |-> 2 * a.hi + l \div Limb, lo |-> l % Limb]

\* The double of a positive integer n < 2^31 (exact).
RECURSIVE Normalize(_, _)
Normalize(m, e) ==
    IF m.hi >= HiOne THEN [none |-> FALSE, hi |-> m.hi, lo |-> m.lo, e |-> e]
    ELSE Normalize(NatDbl(m, 0), e - 1)
F64Zero == [none |-> FALSE, hi |-> 0, lo |-> 0, e |-> 0]
F64FromInt(n) ==
    IF n = 0 THEN F64Zero ELSE Normalize([hi |-> n \div Limb, lo |-> n % Limb], 0)

\* The double of an amount of c cents, c >= 0 a multiple of 25 (exact).
F64FromCents(c) ==
    LET f == F64FromInt(c \div 25) IN IF c = 0 THEN F64Zero ELSE [f EXCEPT !.e = f.e - 2]

F64IsZero(x) == x.hi = 0 /\ x.lo = 0
\* The truth value Python gives an optional float: not None and not 0.0.
Truthy(x) == ~x.none /\ ~F64IsZero(x)

\* k more quotient bits of the restoring division by d: [q, r].
RECURSIVE DivBits(_, _, _, _)
DivBits(q, r, d, k) ==
    IF k = 0 \/ q.hi >= HiOne THEN [q |-> q, r |-> r]
    ELSE LET r2 == NatDbl(r, 0) IN
         IF NatLt(r2, d) THEN DivBits(NatDbl(q, 0), r2, d, k - 1)
         ELSE DivBits(NatDbl(q, 1), NatSub(r2, d), d, k - 1)

\* float / float raising ZeroDivisionError.
DivError == [none |-> TRUE, hi |-> -1, lo |-> 0, e |-> 0]

\* x / y for doubles x >= 0, y >= 0, rounded to nearest, ties to even.
F64Div(x, y) ==
    IF F64IsZero(y) THEN DivError
    ELSE IF F64IsZero(x) THEN F64Zero
    ELSE
    LET d == [hi |-> y.hi, lo |-> y.lo]
        n0 == [hi |-> x.hi, lo |-> x.lo]
        small == NatLt(n0, d)
        n == IF small THEN NatDbl(n0, 0) ELSE n0
        e0 == x.e - y.e - (IF small THEN 1 ELSE 0)
        qr == DivBits([hi |-> 0, lo |-> 1], NatSub(n, d), d, 52)
        r2 == NatDbl(qr.r, 0)
        up == NatLt(d, r2) \/ (r2 = d /\ qr.q.lo % 2 = 1)
        q1 == IF ~up THEN qr.q
              ELSE IF qr.q.lo + 1 < Limb THEN [hi |-> qr.q.hi, lo |-> qr.q.lo + 1]
                   ELSE [hi |-> qr.q.hi + 1, lo |-> 0]
    IN IF q1.hi >= 2 * HiOne
       THEN [none |-> FALSE, hi |-> HiOne, lo |-> 0, e |-> e0 - 52 + 1]
       ELSE [none |-> FALSE, hi |-> q1.hi, lo |-> q1.lo, e |-> e0 - 52]

F64_10000 == F64FromInt(10000)

-----------------------------------------------------------------------------
(* Texts.  A text is a sequence of characters (one-character strings; "EMDASH" *)
(* stands for the single character U+2014).                                    *)

Digits == <<"0", "1", "2", "3", "4", "5", "6", "7", "8", "9">>
UpperCase == <<"A", "B", "C", "D", "E", "F", "G", "H", "I", "J", "K", "L", "M",
               "N", "O", "P", "Q", "R", "S", "T", "U", "V", "W", "X", "Y", "Z">>
LowerCase == <<"a", "b", "c", "d", "e", "f", "g", "h", "i", "j", "k", "l", "m",
               "n", "o", "p", "q", "r", "s", "t", "u", "v", "w", "x", "y", "z">>

DigitSet == {Digits[i] : i \in 1 .. 10}
DigitMap == [c \in DigitSet |-> (CHOOSE i \in 1 .. 10 : Digits[i] = c) - 1]
UpperSet == {UpperCase[i] : i \in 1 .. 26}
LowerMap == [c \in UpperSet |-> LowerCase[CHOOSE i \in 1 .. 26 : UpperCase[i] = c]]
\* The characters matched by \w.
WordChars == DigitSet \cup UpperSet \cup {LowerCase[i] : i \in 1 .. 26} \cup {"_"}

IsDigit(c) == c \in DigitSet
DigitVal(c) == DigitMap[c]
IsWordChar(c) == c \in WordChars

\* str.lower, character by character.
LowerChar(c) == IF c \in UpperSet THEN LowerMap[c] ELSE c
Lower(t) == [i \in 1 .. Len(t) |-> LowerChar(t[i])]

\* str.strip.
RECURSIVE LStrip(_)
LStrip(t) == IF t # <<>> /\ Head(t) = " " THEN LStrip(Tail(t)) ELSE t
RECURSIVE RStrip(_)
RStrip(t) ==
    IF t # <<>> /\ t[Len(t)] = " " THEN RStrip(SubSeq(t, 1, Len(t) - 1)) ELSE t
Strip(t) == RStrip(LStrip(t))

\* `sub in t`.
Contains(t, sub) ==
    \E i \in 0 .. Len(t) - Len(sub) : \A j \in 1 .. Len(sub) : t[i + j] = sub[j]

\* str.replace(c, "").
Without(t, c) == SelectSeq(t, LAMBDA x : x # c)

\* " ".join(ts).
RECURSIVE JoinSpace(_)
JoinSpace(ts) ==
    IF ts = <<>> THEN <<>>
    ELSE IF Len(ts) = 1 THEN ts[1]
         ELSE ts[1] \o <<" ">> \o JoinSpace(Tail(ts))

AllDigits(t) == \A i \in 1 .. Len(t) : IsDigit(t[i])
RECURSIVE DigitsValue(_)
DigitsValue(t) ==
    IF t = <<>> THEN 0 ELSE 10 * DigitsValue(SubSeq(t, 1, Len(t) - 1)) + DigitVal(t[Len(t)])

\* A numeric text without its sign: [sign, body].
Unsigned(t) ==
    IF t # <<>> /\ t[1] \in {"+", "-"}
    THEN [neg |-> t[1] = "-", body |-> Tail(t)]
    ELSE [neg |-> FALSE, body |-> t]

\* float(t) for decimal literals (sign, digits, one optional point): the value in
\* cents, or a ValueError.  The texts drawn as inputs have at most two decimals.
ParseFloat(t) ==
    LET u == Unsigned(Strip(t))
        b == u.body
        dots == {i \in 1 .. Len(b) : b[i] = "."}
        ip == IF dots = {} THEN b ELSE SubSeq(b, 1, (CHOOSE i \in dots : TRUE) - 1)
        fp == IF dots = {} THEN <<>>
              ELSE SubSeq(b, (CHOOSE i \in dots : TRUE) + 1, Len(b))
        fp2 == SubSeq(fp \o <<"0", "0">>, 1, 2)
        ok == /\ Cardinality(dots) <= 1
              /\ AllDigits(ip) /\ AllDigits(fp)
              /\ Len(ip) + Len(fp) > 0
        mag == 100 * DigitsValue(ip) + DigitsValue(fp2)
    IN IF ok THEN [ok |-> TRUE, v |-> IF u.neg THEN -mag ELSE mag]
       ELSE [ok |-> FALSE, v |-> 0]

\* int(t) for decimal literals (sign, digits), or a ValueError.
ParseInt(t) ==
    LET u == Unsigned(Strip(t))
    IN IF u.body # <<>> /\ AllDigits(u.body)
       THEN [ok |-> TRUE, v |-> IF u.neg THEN -DigitsValue(u.body) ELSE DigitsValue(u.body)]
       ELSE [ok |-> FALSE, v |-> 0]

-----------------------------------------------------------------------------
(* The extractor: money_to_float (164-173), int_from (175-180),              *)
(* parse_card_value (260-327)                                                *)

T_Dash == <<"-">>
T_EmDash == <<"EMDASH">>
T_NA == <<"N", "/", "A">>
T_AveragePrice == <<"A", "v", "e", "r", "a", "g", "e", " ", "P", "r", "i", "c", "e">>
T_Population == <<"P", "o", "p", "u", "l", "a", "t", "i", "o", "n">>
T_Grade == <<"G", "r", "a", "d", "e">>
T_10 == <<"1", "0">>

\* money_to_float: the amount in cents.
MoneyToFloat(t) ==
    LET t1 == Strip(t) IN
    IF t1 = <<>> \/ t1 \in {T_Dash, T_EmDash, T_NA} THEN 0
    ELSE LET r == ParseFloat(Without(Without(t1, "$"), ",")) IN
         IF r.ok THEN r.v ELSE 0

\* int_from.
IntFrom(t) ==
    LET r == ParseInt(Without(Strip(t), ",")) IN IF r.ok THEN r.v ELSE 0

\* is_grade_10 (302-307): re.search(r"\b10\b", text) on the stripped text.
IsGrade10MutSubstring(t) == Contains(Strip(t), T_10)
IsGrade10(t) ==
    LET t1 == Strip(t) IN
    /\ t1 # <<>>
    /\ \E i \in 1 .. Len(t1) - 1 :
          /\ SubSeq(t1, i, i + 1) = T_10
          /\ (i = 1 \/ ~IsWordChar(t1[i - 1]))
          /\ (i + 1 = Len(t1) \/ ~IsWordChar(t1[i + 2]))

\* A table is the sequence of its tr rows; a row is the sequence of its td/th
\* cells, each [tag, text] with the text get_text(" ", strip=True) gives.
CellTexts(row) == [i \in 1 .. Len(row) |-> row[i].text]
RECURSIVE Flatten(_)
Flatten(rows) == IF rows = <<>> THEN <<>> ELSE Head(rows) \o Flatten(Tail(rows))
\* The texts of t.find_all("th"), in document order (279, 289).
HeaderTexts(tbl) == CellTexts(SelectSeq(Flatten(tbl), LAMBDA c : c.tag = "th"))

\* Lines 278-282: the table is a price table.
IsPriceTable(tbl) ==
    LET th_text == JoinSpace(HeaderTexts(tbl)) IN
    Contains(th_text, T_AveragePrice) /\ Contains(th_text, T_Population)

\* Lines 276-282: the index of the first price table, 0 when there is none.
TargetIndexMutLast(tables) ==
    LET hits == {i \in 1 .. Len(tables) : IsPriceTable(tables[i])} IN
    IF hits = {} THEN 0 ELSE CHOOSE i \in hits : \A j \in hits : i >= j
TargetIndex(tables) ==
    LET hits == {i \in 1 .. Len(tables) : IsPriceTable(tables[i])} IN
    IF hits = {} THEN 0 ELSE CHOOSE i \in hits : \A j \in hits : i <= j

\* col_idx (290-294): the 0-based index of the first header containing key, or -1.
ColIdx(headers, key) ==
    LET k == Lower(key)
        hits == {i \in 1 .. Len(headers) : Contains(Lower(headers[i]), k)}
    IN IF hits = {} THEN -1 ELSE (CHOOSE i \in hits : \A j \in hits : i <= j) - 1

\* `if avg > 0 and pop > 0` (321).
RowCountsMutOr(avg, pop) == avg > 0 \/ pop > 0
RowCounts(avg, pop) == avg > 0 /\ pop > 0

\* One iteration of the row loop (312-322): what the row adds to value.
RowValue(row, idx_avg, idx_pop, grade_col) ==
    LET cols == CellTexts(row) IN
    IF Len(cols) <= Max(idx_avg, idx_pop) THEN 0
    ELSE LET grade_text == IF Len(cols) > grade_col THEN cols[grade_col + 1] ELSE <<>>
             avg == MoneyToFloat(cols[idx_avg + 1])
             pop == IntFrom(cols[idx_pop + 1])
         IN IF ~IsGrade10(grade_text) THEN 0
            ELSE IF RowCounts(avg, pop) THEN avg * pop ELSE 0

\* rows[1:] (312).
BodyRowsMutAll(tbl) == tbl
BodyRows(tbl) == IF tbl = <<>> THEN <<>> ELSE Tail(tbl)

RECURSIVE SumRows(_, _, _, _)
SumRows(rows, idx_avg, idx_pop, grade_col) ==
    IF rows = <<>> THEN 0
    ELSE RowValue(Head(rows), idx_avg, idx_pop, grade_col)
         + SumRows(Tail(rows), idx_avg, idx_pop, grade_col)

\* parse_card_value(card_url) on the fetched document: None (NotFound) or the
\* CardValue.  The name (264-271) plays no part in any value and is left out.
ParseCardValue(url, tables) ==
    LET ti == TargetIndex(tables) IN
    IF ti = 0 THEN NotFound
    ELSE LET target == tables[ti]
             headers == HeaderTexts(target)
             idx_avg == ColIdx(headers, T_AveragePrice)
             idx_pop == ColIdx(headers, T_Population)
             idx_grade == ColIdx(headers, T_Grade)
             grade_col == IF idx_grade >= 0 THEN idx_grade ELSE 0
             value == SumRows(BodyRows(target), idx_avg, idx_pop, grade_col)
         IN IF idx_avg < 0 \/ idx_pop < 0 THEN NotFound
            ELSE IF value <= 0 THEN NotFound
                 ELSE [found |-> TRUE, url |-> url, value_usd |-> value]

\* The documents drawn as inputs.
Th(t) == [tag |-> "th", text |-> t]
Td(t) == [tag |-> "td", text |-> t]
GradeTexts == {<<"G", "E", "M", "-", "M", "T", " ", "1", "0">>, <<"9">>}
PriceTexts == {<<"$", "1", "0", "0", ".", "0", "0">>,
               <<"$", "5", ",", "7", "7", "7", ".", "5", "0">>,
               <<"EMDASH">>,
               <<"-", "$", "3", ".", "0", "0">>}
PopTexts == {<<"5", "0">>, <<"x">>}
HeaderRows ==
    {<<Th(T_Grade), Th(T_AveragePrice), Th(T_Population)>>,
     <<Th(<<"P", "S", "A">>), Th(<<"a", "v", "e", "r", "a", "g", "e", " ", "p", "r", "i", "c", "e">>), Th(T_Population)>>,
     <<Th(T_Grade), Th(<<"A", "v", "e", "r", "a", "g", "e">>), Th(<<"P", "r", "i", "c", "e", " ", "P", "o", "p", "u", "l", "a", "t", "i", "o", "n">>)>>,
     <<Th(T_Grade), Th(T_AveragePrice), Th(<<"P", "o", "p">>)>>}
BodyRowChoices ==
    {<<Td(g), Td(a), Td(q)>> : g \in GradeTexts, a \in PriceTexts, q \in PopTexts}
    \cup {<<Td(<<"1", "0", "0">>), Td(<<"$", "1", "0", "0", ".", "0", "0">>), Td(<<"5", "0">>)>>,
          <<Th(<<"1", "0">>), Td(<<"$", "1", "0", "0", ".", "0", "0">>), Td(<<"1", ",", "0", "0", "0">>)>>,
          <<Td(<<"G", "E", "M", "-", "M", "T", " ", "1", "0">>), Td(<<"$", "1", "0", "0", ".", "0", "0">>)>>}
LayoutTable == <<<<Td(<<"P", "o", "p", "u", "l", "a", "t", "i", "o", "n", " ", "1", "0">>), Td(<<"$", "1", "0", "0", ".", "0", "0">>), Td(<<"5", "0">>)>>>>
PriceTables ==
    {<<h>> \o b : h \in HeaderRows, b \in SeqsUpTo(BodyRowChoices, MaxRows)}
\* A body row that counts: GEM-MT 10, $100.00, 50.
GoodRow == <<Td(<<"G", "E", "M", "-", "M", "T", " ", "1", "0">>), Td(<<"$", "1", "0", "0", ".", "0", "0">>), Td(<<"5", "0">>)>>
\* No table, one price table, a layout table before a one-row price table, or
\* two tables with header cells the second of which has the row that counts.
Documents ==
    {<<>>} \cup {<<t>> : t \in PriceTables}
    \cup {<<LayoutTable, t>> : t \in {x \in PriceTables : Len(x) <= 2}}
    \cup {<<a, b>> : a \in {x \in PriceTables : Len(x) <= 2},
                      b \in {x \in PriceTables : Len(x) = 2 /\ x[2] = GoodRow}}

\* parse_card_value on one fetched document (276-327).
ParseCard ==
    /\ x_pc = "fetched"
    /\ x_pc' = "parsed"
    /\ x_result' = ParseCardValue(1, x_tables)
    /\ UNCHANGED <<x_tables, fetchVars, mainVars, helperVars>>

InitExtract ==
    /\ FetchIdle
    /\ MainIdle
    /\ HelperIdle
    /\ x_pc = "fetched"
    /\ x_tables \in Documents
    /\ x_result = NotFound

NextExtract == ParseCard

SpecExtract == InitExtract /\ [][NextExtract]_vars

----------------------------------------------------------------------------
(* Claims about the extractor *)

RECURSIVE SumOver(_, _)
SumOver(S, f) ==
    IF S = {} THEN 0
    ELSE LET i == CHOOSE x \in S : TRUE IN f[i] + SumOver(S \ {i}, f)

\* The body rows (every row after the first) of tbl that have enough columns, are
\* accepted as top grade and have a positive average and a positive population,
\* for the 0-based columns ia, ip, ig.
CountedRows(tbl, ia, ip, ig) ==
    {i \in 2 .. Len(tbl) :
        /\ Len(tbl[i]) > ia /\ Len(tbl[i]) > ip /\ Len(tbl[i]) > ig
        /\ IsGrade10(tbl[i][ig + 1].text)
        /\ MoneyToFloat(tbl[i][ia + 1].text) > 0
        /\ IntFrom(tbl[i][ip + 1].text) > 0}
CountedSum(tbl, ia, ip, ig) ==
    LET rows == CountedRows(tbl, ia, ip, ig) IN
    SumOver(rows, [i \in rows |-> MoneyToFloat(tbl[i][ia + 1].text)
                                  * IntFrom(tbl[i][ip + 1].text)])

\* The result is what the counted rows of the selected table give.
ResultMatchesRows(tables, result) ==
    LET ti == TargetIndex(tables)
        headers == HeaderTexts(tables[ti])
        ia == ColIdx(headers, T_AveragePrice)
        ip == ColIdx(headers, T_Population)
        g == ColIdx(headers, T_Grade)
        total == CountedSum(tables[ti], ia, ip, IF g >= 0 THEN g ELSE 0)
    IN (ti # 0 /\ ia >= 0 /\ ip >= 0) =>
          /\ result.found <=> total > 0
          /\ result.found => result.value_usd = total
          /\ ~result.found => result = NotFound

\* C10: for a selected price table the extractor returns a record iff the sum of
\* avg * pop over the counted body rows is positive, and then value_usd is that
\* sum; otherwise it returns NotFound.  Every record returned has value_usd > 0.
C10_ExtractedValue ==
    /\ x_pc = "parsed" => ResultMatchesRows(x_tables, x_result)
    /\ x_result.found => x_result.value_usd > 0

\* Headers [Grade, Average Price, Population], row [GEM-MT 10, $100.00, 50]: 5000.00.
C10_Witness ==
    /\ x_pc = "parsed"
    /\ x_tables = <<<<<<Th(T_Grade), Th(T_AveragePrice), Th(T_Population)>>,
                      <<Td(<<"G", "E", "M", "-", "M", "T", " ", "1", "0">>), Td(<<"$", "1", "0", "0", ".", "0", "0">>), Td(<<"5", "0">>)>>>>>>
    /\ x_result.found /\ x_result.value_usd = 500000

\* The th texts of tbl, joined, hold both markers (278-280).
HasBothMarkers(tbl) ==
    LET th_text == JoinSpace(HeaderTexts(tbl)) IN
    Contains(th_text, T_AveragePrice) /\ Contains(th_text, T_Population)

\* C11: the extractor works on the first table, in document order, whose header
\* cells (their texts taken together) hold both the Average Price and the
\* Population marker; with no such table, or when no single header cell of that
\* table holds the price marker or none holds the population marker, the call
\* returns NotFound whatever the rows hold; the call always returns.
C11_TableSelection ==
    (x_pc = "parsed") =>
        LET firsts == {i \in 1 .. Len(x_tables) :
                          /\ HasBothMarkers(x_tables[i])
                          /\ \A j \in 1 .. i - 1 : ~HasBothMarkers(x_tables[j])}
        IN /\ firsts = {} => x_result = NotFound
           /\ \A i \in firsts :
                 LET headers == HeaderTexts(x_tables[i])
                     ia == ColIdx(headers, T_AveragePrice)
                     ip == ColIdx(headers, T_Population)
                     g == ColIdx(headers, T_Grade)
                     total == CountedSum(x_tables[i], ia, ip, IF g >= 0 THEN g ELSE 0)
                 IN /\ (ia < 0 \/ ip < 0) => x_result = NotFound
                    /\ (ia >= 0 /\ ip >= 0) =>
                          /\ x_result.found <=> total > 0
                          /\ x_result.found => x_result.value_usd = total
           /\ x_result.found \in BOOLEAN

\* The first table's th texts hold both markers, but no single cell holds
\* "Average Price"; the second table is a complete price table: NotFound.
C11_Witness ==
    /\ x_pc = "parsed"
    /\ Len(x_tables) = 2
    /\ HeaderTexts(x_tables[1]) = <<T_Grade, <<"A", "v", "e", "r", "a", "g", "e">>, <<"P", "r", "i", "c", "e", " ", "P", "o", "p", "u", "l", "a", "t", "i", "o", "n">>>>
    /\ Len(x_tables[1]) = 2 /\ x_tables[1][2] = GoodRow
    /\ x_tables[2] = <<<<Th(T_Grade), Th(T_AveragePrice), Th(T_Population)>>, GoodRow>>
    /\ x_result = NotFound

-----------------------------------------------------------------------------
(* Enumeration of card urls: iter_card_urls_in_set (228-258), main (376-388) *)

PageIds == {"p1", "p2"}
CardIds == {1, 2}

\* A set listing page: `cards` are the hrefs accepted by lines 241-244, in document
\* order; `next` is the target of the first anchor accepted by lines 253-258, or
\* "None" when the scan accepts none.
ListingPages == [cards : SeqsUpTo(CardIds, MaxLinks), next : PageIds \cup {"None"}]

\* Lines 241-248: the urls of a page that are not in `sn`, each once, in order.
RECURSIVE NewUrls(_, _)
NewUrls(cards, sn) ==
    IF cards = <<>> THEN <<>>
    ELSE IF Head(cards) \in sn THEN NewUrls(Tail(cards), sn)
         ELSE <<Head(cards)>> \o NewUrls(Tail(cards), sn \cup {Head(cards)})

\* list(dict.fromkeys(card_urls)), line 387: first occurrences, in order.
DedupKeepFirstMutNone(q) == q
DedupKeepFirst(q) == NewUrls(q, {})

\* Line 378: the loop takes the next set url and starts its traversal (234-235).
NextSet ==
    /\ pc = "sets" /\ set_i < Len(set_urls)
    /\ pc' = "pages"
    /\ next_url' = set_urls[set_i + 1]
    /\ seen' = {}
    /\ UNCHANGED <<site, set_urls, set_i, raw_urls, card_urls, aggVars, fetchVars, extractVars, helperVars, runVars>>

\* `while next_url` is entered and fetch(next_url) returns the page (237-238).
PageFetched ==
    /\ pc = "pages" /\ next_url # "None"
    /\ pc' = "scan"
    /\ UNCHANGED <<card_urls, crawlVars, aggVars, fetchVars, extractVars, helperVars, runVars>>

\* The rest of the iteration (241-258): the page's new card urls are yielded, and
\* main appends each (379-380); next_url becomes the page's next link or None.
PageStep ==
    /\ pc = "scan"
    /\ LET pg == site[next_url]
           new == NewUrls(pg.cards, seen)
       IN /\ seen' = seen \cup Range(new)
          /\ card_urls' = card_urls \o new
          /\ raw_urls' = raw_urls \o new
          /\ next_url' = pg.next
    /\ pc' = "pages"
    /\ UNCHANGED <<site, set_urls, set_i, aggVars, fetchVars, extractVars, helperVars, runVars>>

\* fetch(next_url) raises at line 238: nothing catches it, the run ends.
PageFetchFails ==
    /\ pc = "pages" /\ next_url # "None"
    /\ pc' = "aborted"
    /\ raised' = "set"
    /\ UNCHANGED <<card_urls, crawlVars, aggVars, fetchVars, extractVars, helperVars,
                   enumVars, saveVars>>

\* `while next_url` ends: the generator is exhausted, the loop of 378 goes on.
SetDone ==
    /\ pc = "pages" /\ next_url = "None"
    /\ pc' = "sets"
    /\ set_i' = set_i + 1
    /\ UNCHANGED <<site, set_urls, next_url, seen, raw_urls, card_urls, aggVars,
                   fetchVars, extractVars, helperVars, runVars>>

\* Lines 386-392: the collected urls are deduplicated; the extraction loop starts.
Dedup ==
    /\ pc = "sets" /\ set_i = Len(set_urls)
    /\ card_urls' = DedupKeepFirst(card_urls)
    /\ pc' = "extract"
    /\ UNCHANGED <<crawlVars, aggVars, fetchVars, extractVars, helperVars, runVars>>

-----------------------------------------------------------------------------
(* The aggregator: main (390-439) and compute_index (330-362) *)

\* list.sort(key=value_usd, reverse=True) is stable: x goes after every element
\* whose value is not smaller.
InsertDescMutBefore(sorted, x) ==
    LET p == Cardinality({i \in 1 .. Len(sorted) : sorted[i].value_usd > x.value_usd})
    IN SubSeq(sorted, 1, p) \o <<x>> \o SubSeq(sorted, p + 1, Len(sorted))
InsertDesc(sorted, x) ==
    LET p == Cardinality({i \in 1 .. Len(sorted) : sorted[i].value_usd >= x.value_usd})
    IN SubSeq(sorted, 1, p) \o <<x>> \o SubSeq(sorted, p + 1, Len(sorted))
RECURSIVE SortDesc(_)
SortDesc(q) ==
    IF q = <<>> THEN <<>>
    ELSE InsertDesc(SortDesc(SubSeq(q, 1, Len(q) - 1)), q[Len(q)])

\* top10[:10] (404).
TruncateTopMutNine(q) == SubSeq(q, 1, Min(9, Len(q)))
TruncateTop(q) == SubSeq(q, 1, Min(10, Len(q)))

\* Lines 402-404: append, sort descending, truncate.
UpdateTop10(top, cv) == TruncateTop(SortDesc(Append(top, cv)))

\* sum(x.value_usd for x in q), in cents; the sum is exact, so the order in which
\* it is taken does not matter.
RECURSIVE SumValues(_)
SumValues(q) ==
    IF q = <<>> THEN 0
    ELSE IF Len(q) = 1 THEN q[1].value_usd
         ELSE LET h == Len(q) \div 2 IN
              SumValues(SubSeq(q, 1, h)) + SumValues(SubSeq(q, h + 1, Len(q)))

\* Lines 429-432 (main) and 344-347 (compute_index), for n > 0.
BasketSizeMutHalf(n) == n \div 2
BasketSize(n) == IF n < 500 THEN Max(1, n \div 2) ELSE 500

\* Lines 438 (main) and 353 (compute_index): s / 10000.0 if s > 0 else None.
DivisorMutNoGuard(s) == F64Div(F64FromCents(s), F64_10000)
Divisor(s) == IF s > 0 THEN F64Div(F64FromCents(s), F64_10000) ELSE NoneF

\* Lines 439 (main) and 354 (compute_index): s / divisor if divisor else None.
IndexLevelMutRatio(s, divisor) ==
    IF Truthy(divisor) THEN F64Div(divisor, F64FromCents(s)) ELSE NoneF
IndexLevel(s, divisor) ==
    IF Truthy(divisor) THEN F64Div(F64FromCents(s), divisor) ELSE NoneF

\* main, lines 415-439, on the sorted all_values.
MainIndex(vals) ==
    LET n == Len(vals) IN
    IF n = 0 THEN NoSummary
    ELSE LET basket_size == BasketSize(n)
             basket == SubSeq(vals, 1, Min(basket_size, n))
             sum_value == SumValues(basket)
             divisor_10000 == Divisor(sum_value)
         IN [n |-> n, basket_size |-> basket_size, basket |-> basket,
             sum_value |-> sum_value, divisor_10000 |-> divisor_10000,
             index_level |-> IndexLevel(sum_value, divisor_10000)]

\* compute_index(values_desc), lines 334-362.
ComputeIndexDictMutWholeList(vals) ==
    LET n == Len(vals) IN
    IF n = 0 THEN NoDict
    ELSE LET k == BasketSize(n)
             s == SumValues(vals)
             divisor == Divisor(s)
         IN [n_total |-> n, k_used |-> k, sum_value |-> s,
             divisor_10000 |-> divisor, index_level |-> IndexLevel(s, divisor)]
ComputeIndexDict(vals) ==
    LET n == Len(vals) IN
    IF n = 0 THEN NoDict
    ELSE LET k == BasketSize(n)
             s == SumValues(SubSeq(vals, 1, Min(k, n)))
             divisor == Divisor(s)
         IN [n_total |-> n, k_used |-> k, sum_value |-> s,
             divisor_10000 |-> divisor, index_level |-> IndexLevel(s, divisor)]

\* The card pages drawn as inputs of a run: no price table, or one top-grade row
\* with population 1 and the given price.
PricePage(price) ==
    <<<<<<Th(T_Grade), Th(T_AveragePrice), Th(T_Population)>>,
        <<Td(<<"G", "E", "M", "-", "M", "T", " ", "1", "0">>), Td(price), Td(<<"1">>)>>>>>>
P_10 == <<"$", "1", "0", ".", "0", "0">>
P_20 == <<"$", "2", "0", ".", "0", "0">>
P_25 == <<"$", "2", "5", ".", "0", "0">>
P_30 == <<"$", "3", "0", ".", "0", "0">>
P_40 == <<"$", "4", "0", ".", "0", "0">>
P_79 == <<"$", "7", "9", ".", "0", "0">>
P_5000 == <<"$", "5", ",", "0", "0", "0", ".", "0", "0">>
RichPool == {<<>>} \cup {PricePage(x) : x \in {P_10, P_20, P_30, P_40, P_5000}}
TiePool == {<<>>, PricePage(P_25), PricePage(P_79)}
TwoPool == {PricePage(P_25), PricePage(P_79)}
\* The variable pool names the documents of the run.
PoolPages(name) ==
    CASE name = "rich" -> RichPool
      [] name = "tie" -> TiePool
      [] name = "two" -> TwoPool
      [] OTHER -> {}

CardValue(r) == [url |-> r.url, value_usd |-> r.value_usd]

\* One iteration of the loop of line 394 with a fetch that returns.
ExtractCard ==
    /\ pc = "extract" /\ Len(ext_fetched) < Len(card_urls)
    /\ LET cu == card_urls[Len(ext_fetched) + 1] IN
       /\ ext_fetched' = Append(ext_fetched, cu)
       /\ \E doc \in PoolPages(pool) :
             LET cv == ParseCardValue(cu, doc) IN
             IF cv.found
             THEN /\ all_values' = Append(all_values, CardValue(cv))
                  /\ found_order' = Append(found_order, CardValue(cv))
                  /\ top10' = UpdateTop10(top10, CardValue(cv))
             ELSE UNCHANGED <<all_values, found_order, top10>>
    /\ UNCHANGED <<pc, pool, summary, card_urls, crawlVars, fetchVars, extractVars,
                   helperVars, runVars>>

\* fetch(card_url) raises at line 261: nothing catches it, the run ends.
ExtractFetchFailsMutContinue ==
    /\ pc = "extract" /\ Len(ext_fetched) < Len(card_urls)
    /\ ext_fetched' = Append(ext_fetched, card_urls[Len(ext_fetched) + 1])
    /\ raised' = "card"
    /\ UNCHANGED <<pc, pool, all_values, found_order, top10, summary, card_urls, crawlVars,
                   fetchVars, extractVars, helperVars, enumVars, saveVars>>
ExtractFetchFails ==
    /\ pc = "extract" /\ Len(ext_fetched) < Len(card_urls)
    /\ pc' = "aborted"
    /\ ext_fetched' = Append(ext_fetched, card_urls[Len(ext_fetched) + 1])
    /\ raised' = "card"
    /\ UNCHANGED <<pool, all_values, found_order, top10, summary, card_urls, crawlVars, fetchVars,
                   extractVars, helperVars, enumVars, saveVars>>

\* Line 407, after the loop.
SortAll ==
    /\ pc = "extract" /\ Len(ext_fetched) = Len(card_urls)
    /\ pc' = "sorted"
    /\ all_values' = SortDesc(all_values)
    /\ UNCHANGED <<pool, ext_fetched, found_order, top10, summary, card_urls, crawlVars, fetchVars,
                   extractVars, helperVars, runVars>>

\* Lines 415-439.
ComputeSummary ==
    /\ pc = "sorted"
    /\ pc' = "computed"
    /\ summary' = MainIndex(all_values)
    /\ UNCHANGED <<pool, ext_fetched, found_order, all_values, top10, card_urls, crawlVars,
                   fetchVars, extractVars, helperVars, runVars>>

\* compute_index(values_desc).
ComputeIndex ==
    /\ ci_pc = "called"
    /\ ci_pc' = "returned"
    /\ ci_result' = ComputeIndexDict(values_desc)
    /\ UNCHANGED <<values_desc, fetchVars, mainVars, extractVars>>

InitCrawl ==
    /\ FetchIdle
    /\ RunIdle
    /\ ExtractIdle
    /\ HelperIdle
    /\ pc = "sets"
    /\ site \in [PageIds -> ListingPages]
    /\ set_urls \in SeqsUpTo(PageIds, MaxSets)
    /\ pool = "tie"
    /\ set_i = 0 /\ next_url = "None" /\ seen = {}
    /\ card_urls = <<>> /\ raw_urls = <<>>
    /\ ext_fetched = <<>> /\ found_order = <<>> /\ all_values = <<>> /\ top10 = <<>>
    /\ summary = NoSummary

NextRun ==
    \/ NextSet
    \/ PageFetched
    \/ PageStep
    \/ PageFetchFails
    \/ SetDone
    \/ Dedup
    \/ ExtractCard
    \/ ExtractFetchFails
    \/ SortAll
    \/ ComputeSummary

\* A whole run of main from the set urls on.
SpecCrawl == InitCrawl /\ [][NextRun]_vars
\* The steps of the enumeration loops (376-384).
CrawlStep == NextSet \/ PageFetched \/ PageStep \/ SetDone
\* The same, the enumeration going on while it has a step to take: the
\* interpreter does not stop in the middle of a loop.
SpecCrawlFair == SpecCrawl /\ WF_vars(CrawlStep)

\* A run as it stands when the card urls are collected: n distinct urls.
AtExtraction(n, pages) ==
    /\ FetchIdle /\ ExtractIdle /\ HelperIdle
    /\ RunIdle
    /\ pc = "extract"
    /\ site = <<>> /\ set_urls = <<>> /\ set_i = 0 /\ next_url = "None" /\ seen = {}
    /\ card_urls = [i \in 1 .. n |-> i]
    /\ raw_urls = card_urls
    /\ pool = pages
    /\ ext_fetched = <<>> /\ found_order = <<>> /\ all_values = <<>> /\ top10 = <<>>
    /\ summary = NoSummary

NextAgg ==
    \/ ExtractCard
    \/ ExtractFetchFails
    \/ SortAll
    \/ ComputeSummary

InitAgg == \E n \in 0 .. MaxCards : AtExtraction(n, "rich")
SpecAgg == InitAgg /\ [][NextAgg]_vars

InitTop == \E n \in 0 .. MaxTopCards : AtExtraction(n, "two")
SpecTop == InitTop /\ [][NextAgg]_vars

\* The index computations on one list sorted by value descending: n records of
\* one value, or a few records of several values.  compute_index gets the list;
\* main has it after its sort when every value is positive (the only values
\* main keeps).
IndexValues == {0, 2500, 7900, 16900}
SameValue(n, v) == [i \in 1 .. n |-> [url |-> i, value_usd |-> v]]
MixedLists ==
    {[i \in 1 .. Len(q) |-> [url |-> i, value_usd |-> q[i]]] :
        q \in {x \in SeqsUpTo(IndexValues, MaxMixed) :
                  \A i \in 1 .. Len(x) - 1 : x[i] >= x[i + 1]}}
IndexLists == {SameValue(n, v) : n \in 0 .. MaxRecords, v \in IndexValues} \cup MixedLists
AllPositive(q) == \A i \in 1 .. Len(q) : q[i].value_usd > 0
InitIndex ==
    /\ FetchIdle /\ ExtractIdle
    /\ RunIdle
    /\ \E q \in IndexLists :
          /\ values_desc = q
          /\ ci_pc = "called"
          /\ ci_result = NoDict
          /\ pc = IF AllPositive(q) THEN "sorted" ELSE "idle"
          /\ all_values = IF AllPositive(q) THEN q ELSE <<>>
          /\ card_urls = IF AllPositive(q) THEN [i \in 1 .. Len(q) |-> i] ELSE <<>>
    /\ raw_urls = card_urls
    /\ ext_fetched = card_urls
    /\ found_order = all_values
    /\ top10 = TruncateTop(all_values)
    /\ site = <<>> /\ set_urls = <<>> /\ set_i = 0 /\ next_url = "None" /\ seen = {}
    /\ pool = "none"
    /\ summary = NoSummary

NextIndex ==
    \/ ComputeSummary
    \/ ComputeIndex

SpecIndex == InitIndex /\ [][NextIndex]_vars

-----------------------------------------------------------------------------
(* Enumeration of set urls: iter_set_urls (188-224), main (373-374) *)

YearIds == {1, 2}

\* sorted(set(year_urls)), line 198.
RECURSIVE SortedSet(_)
SortedSet(S) ==
    IF S = {} THEN <<>>
    ELSE LET m == CHOOSE x \in S : \A y \in S : x <= y
         IN <<m>> \o SortedSet(S \ {m})

\* Lines 205-224 on one year page: every accepted link is yielded, then counted;
\* the generator returns when MAX_SETS is not None and the count has reached it.
RECURSIVE TakeSets(_, _, _)
TakeSets(links, count, cap) ==
    IF links = <<>> THEN [yielded |-> <<>>, count |-> count, returned |-> FALSE]
    ELSE LET c == count + 1 IN
         IF cap # NoCap /\ c >= cap
         THEN [yielded |-> <<Head(links)>>, count |-> c, returned |-> TRUE]
         ELSE LET rest == TakeSets(Tail(links), c, cap)
              IN [yielded |-> <<Head(links)>> \o rest.yielded,
                  count |-> rest.count, returned |-> rest.returned]

\* fetch(pop_root) returns (189); the year urls are collected and sorted (192-199).
RootFetched ==
    /\ pc = "root"
    /\ pc' = "years"
    /\ year_urls' = SortedSet(Range(root_links))
    /\ UNCHANGED <<root_links, year_pages, MAX_SETS, year_i, count_sets, raised, saveVars,
                   card_urls, crawlVars, aggVars, fetchVars, extractVars, helperVars>>

\* fetch(pop_root) raises at line 189: nothing catches it, the run ends.
RootFetchFails ==
    /\ pc = "root"
    /\ pc' = "aborted"
    /\ raised' = "root"
    /\ UNCHANGED <<enumVars, saveVars, card_urls, crawlVars, aggVars, fetchVars,
                   extractVars, helperVars>>

\* One iteration of `for yurl in year_urls` (202-224) with a fetch that returns;
\* list(...) of line 373 collects what the iteration yields.
YearStep ==
    /\ pc = "years" /\ year_i < Len(year_urls)
    /\ LET r == TakeSets(year_pages[year_urls[year_i + 1]], count_sets, MAX_SETS)
       IN /\ set_urls' = set_urls \o r.yielded
          /\ count_sets' = r.count
          /\ pc' = IF r.returned THEN "sets" ELSE "years"
    /\ year_i' = year_i + 1
    /\ UNCHANGED <<root_links, year_pages, MAX_SETS, year_urls, raised, saveVars,
                   site, set_i, next_url, seen, raw_urls, card_urls, aggVars,
                   fetchVars, extractVars, helperVars>>

\* fetch(yurl) raises at line 203: nothing catches it, the run ends.
YearFetchFails ==
    /\ pc = "years" /\ year_i < Len(year_urls)
    /\ pc' = "aborted"
    /\ raised' = "year"
    /\ UNCHANGED <<enumVars, saveVars, card_urls, crawlVars, aggVars, fetchVars,
                   extractVars, helperVars>>

\* The loop of line 202 ends: the generator is exhausted (373-374).
YearsDone ==
    /\ pc = "years" /\ year_i = Len(year_urls)
    /\ pc' = "sets"
    /\ UNCHANGED <<runVars, card_urls, crawlVars, aggVars, fetchVars, extractVars,
                   helperVars>>

\* main is about to call iter_set_urls (373), with the given pages behind the
\* urls and the given MAX_SETS.
AtRoot(links, pages, cap) ==
    /\ FetchIdle /\ ExtractIdle /\ HelperIdle
    /\ pc = "root" /\ raised = "None"
    /\ root_links = links /\ year_pages = pages /\ MAX_SETS = cap
    /\ year_urls = <<>> /\ year_i = 0 /\ count_sets = 0
    /\ set_urls = <<>> /\ set_i = 0 /\ next_url = "None" /\ seen = {}
    /\ card_urls = <<>> /\ raw_urls = <<>>
    /\ ext_fetched = <<>> /\ found_order = <<>> /\ all_values = <<>> /\ top10 = <<>>
    /\ summary = NoSummary

InitSets ==
    /\ \E links \in SeqsUpTo(YearIds, MaxYearLinks),
          pages \in [YearIds -> SeqsUpTo(PageIds, MaxYearSets)],
          cap \in {NoCap} \cup (0 .. MaxCap) : AtRoot(links, pages, cap)
    /\ site = <<>> /\ pool = "none"
    /\ SaveIdle

NextSets ==
    \/ RootFetched
    \/ RootFetchFails
    \/ YearStep
    \/ YearFetchFails
    \/ YearsDone

\* One call of list(iter_set_urls(pop_root)).
SpecSets == InitSets /\ [][NextSets]_vars

-----------------------------------------------------------------------------
(* Saving: main (440-521), for each running instance *)

\* The rows of data/index_history.csv; run 0 stands for the runs that ended
\* before the modelled ones started.
HeaderRow(r) == [kind |-> "header", run |-> r, total_cards |-> 0, basket_size |-> 0]
DataRow(r, row) ==
    [kind |-> "data", run |-> r, total_cards |-> row.total_cards,
     basket_size |-> row.basket_size]

\* Writing through a file opened with mode "a" (458): the rows go to the end.
AppendRowsMutTruncate(old, rows) == rows
AppendRows(old, rows) == old \o rows

\* Lines 440-452: the summary is printed; the values of the data row are fixed.
BeginSave ==
    /\ pc = "computed" /\ o_pc[1] = "crawl"
    /\ o_pc' = [o_pc EXCEPT ![1] = "save"]
    /\ o_row' = [o_row EXCEPT ![1] = [total_cards |-> summary.n,
                                      basket_size |-> summary.basket_size]]
    /\ UNCHANGED <<log, log_exists, history_exists, written, raised, enumVars, pc,
                   card_urls, crawlVars, aggVars, fetchVars, extractVars, helperVars>>

\* Lines 454-457: history_exists = history_path.exists().
CheckHistory ==
    \E r \in Instances :
        /\ o_pc[r] = "save"
        /\ o_pc' = [o_pc EXCEPT ![r] = "checked"]
        /\ history_exists' = [history_exists EXCEPT ![r] = log_exists]
        /\ UNCHANGED <<log, log_exists, o_row, written, raised, enumVars, pc,
                       card_urls, crawlVars, aggVars, fetchVars, extractVars, helperVars>>

\* Line 458: open("a") creates the file when it does not exist.
OpenHistory ==
    \E r \in Instances :
        /\ o_pc[r] = "checked"
        /\ o_pc' = [o_pc EXCEPT ![r] = "opened"]
        /\ log_exists' = TRUE
        /\ UNCHANGED <<log, history_exists, o_row, written, raised, enumVars, pc,
                       card_urls, crawlVars, aggVars, fetchVars, extractVars, helperVars>>

\* Lines 459-482: the header row when history_exists is false, then the data
\* row; both reach the file when the with block closes it, in one append.
WriteHistory ==
    \E r \in Instances :
        /\ o_pc[r] = "opened"
        /\ o_pc' = [o_pc EXCEPT ![r] = "logged"]
        /\ log' = AppendRows(log, (IF history_exists[r] THEN <<>> ELSE <<HeaderRow(r)>>)
                                    \o <<DataRow(r, o_row[r])>>)
        /\ UNCHANGED <<log_exists, history_exists, o_row, written, raised, enumVars, pc,
                       card_urls, crawlVars, aggVars, fetchVars, extractVars, helperVars>>

\* Lines 486-490: top10.csv.
WriteTop10 ==
    \E r \in Instances :
        /\ o_pc[r] = "logged"
        /\ o_pc' = [o_pc EXCEPT ![r] = "top10"]
        /\ written' = [written EXCEPT ![r] = @ \cup {"top10.csv"}]
        /\ UNCHANGED <<log, log_exists, history_exists, o_row, raised, enumVars, pc,
                       card_urls, crawlVars, aggVars, fetchVars, extractVars, helperVars>>

\* Lines 494-499: basket.csv, when n > 0.
WriteBasket ==
    \E r \in Instances :
        /\ o_pc[r] = "top10"
        /\ o_pc' = [o_pc EXCEPT ![r] = "basket"]
        /\ written' = [written EXCEPT ![r] =
                          IF o_row[r].total_cards > 0 THEN @ \cup {"basket.csv"} ELSE @]
        /\ UNCHANGED <<log, log_exists, history_exists, o_row, raised, enumVars, pc,
                       card_urls, crawlVars, aggVars, fetchVars, extractVars, helperVars>>

\* Lines 501-521: run_info.txt; main returns.
WriteRunInfo ==
    \E r \in Instances :
        /\ o_pc[r] = "basket"
        /\ o_pc' = [o_pc EXCEPT ![r] = "done"]
        /\ written' = [written EXCEPT ![r] = @ \cup {"run_info.txt"}]
        /\ UNCHANGED <<log, log_exists, history_exists, o_row, raised, enumVars, pc,
                       card_urls, crawlVars, aggVars, fetchVars, extractVars, helperVars>>

NextSave ==
    \/ CheckHistory
    \/ OpenHistory
    \/ WriteHistory
    \/ WriteTop10
    \/ WriteBasket
    \/ WriteRunInfo

\* The log the earlier runs left: none, or the header and one row per run.
PriorLogs ==
    {<<>>} \cup {<<HeaderRow(0)>> \o [i \in 1 .. k |-> DataRow(0, [total_cards |-> 1, basket_size |-> 1])] :
                    k \in 1 .. MaxPriorRuns}
\* The data row values of an instance whose crawl is not followed.
RowValues == {[total_cards |-> n, basket_size |-> BasketSize(n)] : n \in 0 .. MaxOtherCards}

\* Two instances that have both completed their crawl, about to save.
InitLog ==
    /\ FetchIdle /\ ExtractIdle /\ HelperIdle
    /\ pc = "idle"
    /\ site = <<>> /\ pool = "none" /\ set_urls = <<>> /\ set_i = 0
    /\ next_url = "None" /\ seen = {} /\ card_urls = <<>> /\ raw_urls = <<>>
    /\ ext_fetched = <<>> /\ found_order = <<>> /\ all_values = <<>> /\ top10 = <<>>
    /\ summary = NoSummary
    /\ raised = "None" /\ EnumIdle
    /\ log \in PriorLogs /\ log_exists = (log # <<>>)
    /\ o_pc = [r \in Instances |-> "save"]
    /\ history_exists = [r \in Instances |-> FALSE]
    /\ o_row \in [Instances -> RowValues]
    /\ written = [r \in Instances |-> {}]

\* The saving steps of two instances, interleaved in every way.
SpecLog == InitLog /\ [][NextSave]_vars

-----------------------------------------------------------------------------
(* Claims about the enumeration *)

\* C3: the traversal of a set always ends (the run goes on with the next set, or
\* stops), whatever the links between the pages are.
C3_TraversalEnds == (pc = "pages") ~> (pc \notin {"pages", "scan"})

FirstIndex(q, x) == CHOOSE i \in 1 .. Len(q) : q[i] = x /\ \A j \in 1 .. i - 1 : q[j] # x
IsPrefix(a, b) == Len(a) <= Len(b) /\ SubSeq(b, 1, Len(a)) = a

\* C4: once the urls are collected, card_urls holds every url the traversals
\* yielded exactly once, in the order of their first yield, and the extraction
\* fetches the urls of card_urls in that order, each once.
C4_DedupFirstSeen ==
    (pc \in {"extract", "sorted", "computed"}) =>
        /\ Range(card_urls) = Range(raw_urls)
        /\ Cardinality(Range(card_urls)) = Len(card_urls)
        /\ \A i, j \in 1 .. Len(card_urls) :
              i < j => FirstIndex(raw_urls, card_urls[i]) < FirstIndex(raw_urls, card_urls[j])
        /\ IsPrefix(ext_fetched, card_urls)
        /\ (pc # "extract") => ext_fetched = card_urls

\* Two sets list card 1: it is kept once, before card 2, and fetched once.
C4_Witness ==
    /\ pc = "computed"
    /\ Len(set_urls) = 2 /\ set_urls[1] # set_urls[2]
    /\ raw_urls = <<1, 2, 1>>
    /\ card_urls = <<1, 2>>
    /\ ext_fetched = <<1, 2>>

\* The set links on the first k year pages, in the order of year_urls.
LinksThrough(k) == Flatten([j \in 1 .. k |-> year_pages[year_urls[j]]])

\* C19: with MAX_SETS = m, for every m >= 0, iter_set_urls yields at most m set
\* urls and fetches no year page after the one that yielded the m-th; with
\* MAX_SETS = None it yields every accepted set link, the year pages taken in
\* sorted order, each once.
C19_SetsCap ==
    (pc = "sets" /\ set_i = 0 /\ card_urls = <<>>) =>
        /\ \A j \in 1 .. Len(year_urls) - 1 : year_urls[j] < year_urls[j + 1]
        /\ Range(year_urls) = Range(root_links)
        /\ MAX_SETS # NoCap =>
              /\ Len(set_urls) <= MAX_SETS
              /\ set_urls = SubSeq(LinksThrough(year_i), 1, Len(set_urls))
              /\ Len(set_urls) = MAX_SETS \/ year_i = Len(year_urls)
              /\ year_i > 0 => Len(LinksThrough(year_i - 1)) < MAX_SETS
        /\ MAX_SETS = NoCap =>
              (year_i = Len(year_urls) /\ set_urls = LinksThrough(Len(year_urls)))

\* The inputs of the whole run that is followed: the root page, the year pages,
\* the set listing pages and MAX_SETS.
RunRootLinks == {<<1>>, <<2, 1>>}
RunYearPages == {[y \in YearIds |-> <<"p1">>],
                 [y \in YearIds |-> IF y = 1 THEN <<"p1", "p2">> ELSE <<>>]}
RunSites ==
    {[p \in PageIds |-> IF p = "p1" THEN [cards |-> <<1, 2>>, next |-> "p2"]
                                     ELSE [cards |-> <<2>>, next |-> "None"]],
     [p \in PageIds |-> IF p = "p1" THEN [cards |-> <<>>, next |-> "None"]
                                     ELSE [cards |-> <<1>>, next |-> "None"]]}

\* One instance from the start of main; the other one does not run.
InitRun ==
    /\ \E links \in RunRootLinks, pages \in RunYearPages, cap \in {NoCap, 1} :
          AtRoot(links, pages, cap)
    /\ site \in RunSites /\ pool = "tie"
    /\ log \in PriorLogs /\ log_exists = (log # <<>>)
    /\ o_pc = [r \in Instances |-> "crawl"]
    /\ history_exists = [r \in Instances |-> FALSE]
    /\ o_row = [r \in Instances |-> NoRow]
    /\ written = [r \in Instances |-> {}]

NextMain ==
    \/ NextSets
    \/ NextRun
    \/ BeginSave
    \/ NextSave

\* A whole run of main, from the root page to run_info.txt.
SpecRun == InitRun /\ [][NextMain]_vars

-----------------------------------------------------------------------------
(* Claims about the historical log *)

HeaderPositions == {i \in 1 .. Len(log) : log[i].kind = "header"}

\* C13: however the saving steps of two runs interleave, a run writes the header
\* row only when the log does not exist, so the log never holds more than one
\* header row, and the header is its first row.
C13_SingleHeader ==
    /\ Cardinality(HeaderPositions) <= 1
    /\ log # <<>> => log[1].kind = "header"

\* The positions of the data rows of instance r in the log.
DataPositions(r) == {i \in 1 .. Len(log) : log[i].kind = "data" /\ log[i].run = r}

\* C14: a run that has completed its crawl appends exactly one data row, also
\* when it has no valid record (n = 0); every step leaves the rows already in
\* the log where they are, as a prefix of the log: none is rewritten or deleted.
C14_AppendOnly ==
    /\ [][Len(log) <= Len(log') /\ SubSeq(log', 1, Len(log)) = log]_vars
    /\ [](\A r \in Instances :
             /\ o_pc[r] \in {"save", "checked", "opened"} => DataPositions(r) = {}
             /\ o_pc[r] \in {"logged", "top10", "basket", "done"} =>
                   /\ Cardinality(DataPositions(r)) = 1
                   /\ \A i \in DataPositions(r) :
                         log[i].total_cards = o_row[r].total_cards)

\* Both instances are done, one without any valid record; the two rows of the
\* earlier runs are still the first rows after the header.
C14_Witness ==
    /\ \A r \in Instances : o_pc[r] = "done"
    /\ o_row[1].total_cards = 0 /\ o_row[2].total_cards = 2
    /\ Len(log) = 5
    /\ log[2].run = 0 /\ log[3].run = 0
    /\ DataPositions(1) # {} /\ DataPositions(2) # {}

\* C12: once a fetch of the root page, a year page, a set page or a card page
\* has raised, the run is over: it takes no further step (no later page is
\* fetched), it has appended no row to the log and has written none of
\* top10.csv, basket.csv and run_info.txt.
C12_RunStops ==
    /\ [][raised = "None"]_vars
    /\ [](raised # "None" =>
             /\ pc = "aborted"
             /\ o_pc[1] = "crawl"
             /\ \A i \in 1 .. Len(log) : log[i].run # 1
             /\ written[1] = {})

\* A card page fetch raised after one card had been valued; the log of the
\* earlier runs is as it was.
C12_Witness ==
    /\ raised = "card" /\ pc = "aborted"
    /\ Len(all_values) = 1 /\ Len(ext_fetched) = 2
    /\ Len(log) = 3 /\ written[1] = {}

-----------------------------------------------------------------------------
(* Claims about the aggregator *)

\* The basket size the specification gives for n valid records.
StatedBasketSize(n) ==
    IF n = 0 THEN 0 ELSE IF n < 500 THEN (IF n \div 2 >= 1 THEN n \div 2 ELSE 1) ELSE 500

\* C5: the basket size is 0 for n = 0, max(1, n // 2) for 0 < n < 500 and 500 for
\* n >= 500, so 1 <= k <= n for n > 0; in main and in compute_index.
C5_BasketSize ==
    /\ (pc = "computed") =>
          /\ summary.n = Len(all_values)
          /\ summary.basket_size = StatedBasketSize(summary.n)
          /\ Len(summary.basket) = summary.basket_size
          /\ summary.n > 0 => (1 <= summary.basket_size /\ summary.basket_size <= summary.n)
    /\ (ci_pc = "returned") =>
          /\ ci_result.n_total = Len(values_desc)
          /\ ci_result.k_used = StatedBasketSize(ci_result.n_total)
          /\ ci_result.n_total > 0 =>
                (1 <= ci_result.k_used /\ ci_result.k_used <= ci_result.n_total)

C5_Witness ==
    /\ pc = "computed" /\ summary.n = 500 /\ summary.basket_size = 500
    /\ ci_pc = "returned" /\ ci_result.k_used = 500

\* q is `records` sorted by value descending, equal values in the order of records.
IsStableDescSort(q, records) ==
    /\ Len(q) = Len(records)
    /\ Range(q) = Range(records)
    /\ \A i, j \in 1 .. Len(q) :
          i < j => \/ q[i].value_usd > q[j].value_usd
                   \/ /\ q[i].value_usd = q[j].value_usd
                      /\ FirstIndex(records, q[i]) < FirstIndex(records, q[j])

\* C6: the basket is the first k records of the valid records sorted by value
\* descending with equal values in discovery order: no member is worth less than a
\* non-member, among equal values the earlier record is preferred, and
\* sum_value is the sum of the members' values.
C6_BasketTopK ==
    (pc = "computed") =>
        LET k == summary.basket_size
            n == Len(found_order)
            members == {summary.basket[i].url : i \in 1 .. Len(summary.basket)}
        IN /\ IsStableDescSort(all_values, found_order)
           /\ summary.basket = SubSeq(all_values, 1, k)
           /\ \A a, b \in 1 .. n :
                 (found_order[a].url \in members /\ found_order[b].url \notin members) =>
                     \/ found_order[a].value_usd > found_order[b].value_usd
                     \/ (found_order[a].value_usd = found_order[b].value_usd /\ a < b)
           /\ summary.sum_value =
                 SumOver(1 .. Len(summary.basket),
                         [i \in 1 .. Len(summary.basket) |-> summary.basket[i].value_usd])

\* Values 10, 20, 30, 40, 5000: the basket is {5000, 40}, its sum 5040.
C6_Witness ==
    /\ pc = "computed"
    /\ [i \in 1 .. Len(found_order) |-> found_order[i].value_usd]
          = <<1000, 2000, 3000, 4000, 500000>>
    /\ [i \in 1 .. Len(summary.basket) |-> summary.basket[i].value_usd] = <<500000, 4000>>
    /\ summary.sum_value = 504000

\* C7: after the loop and the final sort, top10 is the first min(10, n) records of
\* the sorted all_values, element by element.
C7_Top10IsPrefix ==
    (pc \in {"sorted", "computed"}) =>
        top10 = SubSeq(all_values, 1, IF Len(all_values) < 10 THEN Len(all_values) ELSE 10)

\* Eleven records, the tenth and the eleventh of equal value, not all equal.
C7_Witness ==
    /\ pc = "sorted" /\ Len(all_values) = 11 /\ Len(top10) = 10
    /\ all_values[10].value_usd = all_values[11].value_usd
    /\ all_values[1].value_usd > all_values[10].value_usd
    /\ found_order[1].value_usd < found_order[11].value_usd

\* C8: no division by zero: with n = 0 the basket size and the sum are 0 and the
\* divisor and the index level are None; whenever the sum is not positive the
\* divisor and the index level are None; no division raises.
C8_NoZeroDivision ==
    /\ (pc = "computed") =>
          /\ summary.n = 0 =>
                (summary.basket_size = 0 /\ summary.sum_value = 0)
          /\ summary.sum_value <= 0 =>
                (summary.divisor_10000 = NoneF /\ summary.index_level = NoneF)
          /\ summary.divisor_10000 # DivError /\ summary.index_level # DivError
    /\ (ci_pc = "returned") =>
          /\ ci_result.n_total = 0 =>
                (ci_result.k_used = 0 /\ ci_result.sum_value = 0)
          /\ ci_result.sum_value <= 0 =>
                (ci_result.divisor_10000 = NoneF /\ ci_result.index_level = NoneF)
          /\ ci_result.divisor_10000 # DivError /\ ci_result.index_level # DivError

\* Records worth nothing: the sum is 0 although n > 0.
C8_Witness ==
    /\ ci_pc = "returned" /\ ci_result.n_total = 3 /\ ci_result.sum_value = 0
    /\ ci_result.divisor_10000 = NoneF
    /\ pc = "idle"

WithinOneUlpOf10000(x) ==
    /\ ~x.none
    /\ x.e = F64_10000.e
    /\ \/ (x.hi = F64_10000.hi /\ x.lo \in {0, 1})
       \/ (x.hi = F64_10000.hi - 1 /\ x.lo = Limb - 1)

====
